---------------------------- MODULE Spec2Model ----------------------------
(***************************************************************************)
(* The query-plan executor of the federation gateway                       *)
(* (crates/core/src/executor/mod.rs): the plan walker, the Fetch and       *)
(* Flatten executors, the path/representation engine and the merge engine. *)
(***************************************************************************)
EXTENDS Integers, Sequences, FiniteSets, TLC

(***************************************************************************)
(* ConstValue: the JSON-like value.  Each variant is a record with its own *)
(* payload field; an Object is a map from key (a string) to value, as the  *)
(* BTreeMap<Name, ConstValue> of the source.                               *)
(***************************************************************************)
Null == [t |-> "Null"]
Number(i) == [t |-> "Number", n |-> i]
String(s) == [t |-> "String", s |-> s]
Object(m) == [t |-> "Object", o |-> m]
List(a) == [t |-> "List", l |-> a]

EmptyMap == [k \in {} |-> Null]

IsObject(v) == v.t = "Object"
IsList(v) == v.t = "List"
IsNull(v) == v.t = "Null"

(***************************************************************************)
(* ServerError and the Response under assembly.                            *)
(***************************************************************************)
ServerError(message, locations) == [message |-> message, locations |-> locations]
Response(data, errors) == [data |-> data, errors |-> errors]

PathSegment(name, is_list) == [name |-> name, is_list |-> is_list]

(***************************************************************************)
(* merge_data(target, value): the new content of *target.                  *)
(***************************************************************************)
\* (A merge in which the fragment replaces the target.)
merge_data_overwrite(target, value) == value

\* (A merge that appends a list to a list.)
merge_data_appending_lists(target, value) ==
    IF IsNull(target) THEN value
    ELSE IF IsList(target) /\ IsList(value) THEN List(target.l \o value.l)
    ELSE target

RECURSIVE merge_data(_, _)
merge_data(target, value) ==
    IF IsNull(target) THEN value
    ELSE IF IsObject(target) /\ IsObject(value) THEN
        Object([key \in (DOMAIN target.o) \cup (DOMAIN value.o) |->
                  IF key \in DOMAIN target.o
                  THEN IF key \in DOMAIN value.o
                       THEN merge_data(target.o[key], value.o[key])
                       ELSE target.o[key]
                  ELSE value.o[key]])
    ELSE IF IsList(target) /\ IsList(value) /\ Len(target.l) = Len(value.l) THEN
        List([idx \in 1..Len(target.l) |-> merge_data(target.l[idx], value.l[idx])])
    ELSE target

(***************************************************************************)
(* merge_errors(target, errors): target with each error appended, its      *)
(* locations replaced by the default (empty) list.                         *)
(***************************************************************************)
\* (An append that keeps the subgraph's locations.)
merge_errors_keep_locations(target, errors) == target \o errors

merge_errors(target, errors) ==
    target \o [i \in 1..Len(errors) |-> ServerError(errors[i].message, <<>>)]

(***************************************************************************)
(* format!("__key{}_", prefix): the decimal rendering of the prefix        *)
(* between "__key" and "_".                                                *)
(***************************************************************************)
Digit == <<"0", "1", "2", "3", "4", "5", "6", "7", "8", "9">>

RECURSIVE Decimal(_)
Decimal(n) == IF n < 10 THEN Digit[n + 1] ELSE Decimal(n \div 10) \o Digit[(n % 10) + 1]

\* (A prefix without the "_" that ends the number.)
KeyPrefix_unterminated(prefix) == "__key" \o Decimal(prefix)

KeyPrefix(prefix) == "__key" \o Decimal(prefix) \o "_"

starts_with(key, p) == Len(key) >= Len(p) /\ SubSeq(key, 1, Len(p)) = p

(***************************************************************************)
(* extract_keys(from, prefix): the keys of `from` that start with the      *)
(* prefix are removed from it and returned, prefix stripped, as an object. *)
(* The result is [res |-> the representation, from |-> what is left].      *)
(***************************************************************************)
\* (An extraction that copies the keys and leaves them in place.)
extract_keys_keep(from, prefix) ==
    LET p == KeyPrefix(prefix)
        keys == {key \in DOMAIN from : starts_with(key, p)}
        names == {SubSeq(key, Len(p) + 1, Len(key)) : key \in keys}
    IN  [res |-> Object([name \in names |-> from[p \o name]]),
         from |-> from]

extract_keys(from, prefix) ==
    LET p == KeyPrefix(prefix)
        keys == {key \in DOMAIN from : starts_with(key, p)}
        names == {SubSeq(key, Len(p) + 1, Len(key)) : key \in keys}
    IN  [res |-> Object([name \in names |-> from[p \o name]]),
         from |-> [key \in (DOMAIN from) \ keys |-> from[key]]]

(***************************************************************************)
(* get_representations(representations, value, path, prefix): the walk of  *)
(* the collect phase.  The result is [representations |-> the list with    *)
(* what the walk appended, value |-> the new content of *value].           *)
(***************************************************************************)
Collected(representations, value) == [representations |-> representations, value |-> value]

\* `for element in array` of the terminal step, from element idx on.
RECURSIVE get_representations_last_elements(_, _, _, _)
get_representations_last_elements(representations, array, idx, prefix) ==
    IF idx > Len(array) THEN Collected(representations, array)
    ELSE IF IsObject(array[idx]) THEN
        LET e == extract_keys(array[idx].o, prefix)
        IN  get_representations_last_elements(Append(representations, e.res),
                [array EXCEPT ![idx] = Object(e.from)], idx + 1, prefix)
    ELSE get_representations_last_elements(representations, array, idx + 1, prefix)

RECURSIVE get_representations(_, _, _, _)
RECURSIVE get_representations_elements(_, _, _, _, _)

\* `for element in array` of an intermediate step, from element idx on.
get_representations_elements(representations, array, idx, path, prefix) ==
    IF idx > Len(array) THEN Collected(representations, array)
    ELSE LET r == get_representations(representations, array[idx], path, prefix)
         IN  get_representations_elements(r.representations,
                 [array EXCEPT ![idx] = r.value], idx + 1, path, prefix)

get_representations(representations, value, path, prefix) ==
    IF Len(path) = 0 THEN Collected(representations, value)
    ELSE
    LET segment == path[1]
        is_last == Len(path) = 1
        rest == SubSeq(path, 2, Len(path))
    IN  IF ~IsObject(value) \/ segment.name \notin DOMAIN value.o
        THEN Collected(representations, value)
        ELSE
        LET field == value.o[segment.name]
            Put(reps, new) == Collected(reps, Object([value.o EXCEPT ![segment.name] = new]))
        IN  IF is_last
            THEN IF ~segment.is_list
                 THEN IF IsObject(field)
                      THEN LET e == extract_keys(field.o, prefix)
                           IN  Put(Append(representations, e.res), Object(e.from))
                      ELSE Collected(representations, value)
                 ELSE IF IsList(field)
                      THEN LET r == get_representations_last_elements(
                                        representations, field.l, 1, prefix)
                           IN  Put(r.representations, List(r.value))
                      ELSE Collected(representations, value)
            ELSE IF ~segment.is_list
                 THEN LET r == get_representations(representations, field, rest, prefix)
                      IN  Put(r.representations, r.value)
                 ELSE IF IsList(field)
                      THEN LET r == get_representations_elements(
                                        representations, field.l, 1, rest, prefix)
                           IN  Put(r.representations, List(r.value))
                      ELSE Collected(representations, value)

(***************************************************************************)
(* take_value(n, values): None once n has reached the end of values, else  *)
(* Some(values[n]) with n advanced.  (The source also leaves a Null in the *)
(* taken slot of `values`, a local list that nothing reads afterwards.)    *)
(* Indices are those of the source, from 0.                                *)
(***************************************************************************)
\* (A take that does not advance n.)
take_value_stuck(n, values) ==
    IF n >= Len(values)
    THEN [some |-> FALSE, value |-> Null, n |-> n]
    ELSE [some |-> TRUE, value |-> values[n + 1], n |-> n]

take_value(n, values) ==
    IF n >= Len(values)
    THEN [some |-> FALSE, value |-> Null, n |-> n]
    ELSE [some |-> TRUE, value |-> values[n + 1], n |-> n + 1]

(***************************************************************************)
(* flatten_values(target, path, n, values): the walk of the integrate      *)
(* phase.  The result is [target |-> the new content of *target,           *)
(* n |-> the new value of *n].                                             *)
(***************************************************************************)
Flattened(target, n) == [target |-> target, n |-> n]

\* `for element in array` of the terminal step, from element idx on.
RECURSIVE flatten_values_last_elements(_, _, _, _)
flatten_values_last_elements(array, idx, n, values) ==
    IF idx > Len(array) THEN Flattened(array, n)
    ELSE LET taken == take_value(n, values)
         IN  IF taken.some
             THEN flatten_values_last_elements(
                      [array EXCEPT ![idx] = merge_data(array[idx], taken.value)],
                      idx + 1, taken.n, values)
             ELSE flatten_values_last_elements(array, idx + 1, taken.n, values)

RECURSIVE flatten_values(_, _, _, _)
RECURSIVE flatten_values_elements(_, _, _, _, _)

\* `for element in array` of an intermediate step, from element idx on.
flatten_values_elements(array, idx, path, n, values) ==
    IF idx > Len(array) THEN Flattened(array, n)
    ELSE LET r == flatten_values(array[idx], path, n, values)
         IN  flatten_values_elements([array EXCEPT ![idx] = r.target],
                                     idx + 1, path, r.n, values)

flatten_values(target, path, n, values) ==
    IF Len(path) = 0 THEN Flattened(target, n)
    ELSE
    LET segment == path[1]
        is_last == Len(path) = 1
        rest == SubSeq(path, 2, Len(path))
    IN  IF ~IsObject(target) \/ segment.name \notin DOMAIN target.o
        THEN Flattened(target, n)
        ELSE
        LET field == target.o[segment.name]
            Put(new, m) == Flattened(Object([target.o EXCEPT ![segment.name] = new]), m)
        IN  IF is_last
            THEN IF ~segment.is_list
                 THEN LET taken == take_value(n, values)
                      IN  IF taken.some
                          THEN Put(merge_data(field, taken.value), taken.n)
                          ELSE Flattened(target, taken.n)
                 ELSE IF IsList(field)
                      THEN LET r == flatten_values_last_elements(field.l, 1, n, values)
                           IN  Put(List(r.target), r.n)
                      ELSE Flattened(target, n)
            ELSE IF ~segment.is_list
                 THEN LET r == flatten_values(field, rest, n, values)
                      IN  Put(r.target, r.n)
                 ELSE IF IsList(field)
                      THEN LET r == flatten_values_elements(field.l, 1, rest, n, values)
                           IN  Put(List(r.target), r.n)
                      ELSE Flattened(target, n)

(***************************************************************************)
(* PlanNode: the plan is a tree, held as a map from node number to node;   *)
(* a Sequence or Parallel names its children in declaration order, and     *)
(* node 1 is the root handed to execute.                                   *)
(***************************************************************************)
SequenceNode(nodes) == [kind |-> "Sequence", nodes |-> nodes]
ParallelNode(nodes) == [kind |-> "Parallel", nodes |-> nodes]
IntrospectionNode(value) == [kind |-> "Introspection", value |-> value]
FetchNode(service) == [kind |-> "Fetch", service |-> service]
FlattenNode(service, path, prefix) ==
    [kind |-> "Flatten", service |-> service, path |-> path, prefix |-> prefix]

Root == 1

(***************************************************************************)
(* The coordinator's answer to a query: Ok(Response) or Err(error); the    *)
(* error is rendered by to_string.                                         *)
(***************************************************************************)
Ok(response) == [ok |-> TRUE, resp |-> response]
Err(err) == [ok |-> FALSE, err |-> err]
TransportError(display) == [display |-> display]
to_string(err) == err.display

(***************************************************************************)
(* Bounds of the model.                                                    *)
(***************************************************************************)
\* The longest `_entities` list a subgraph returns.
MaxEntities == 2
\* The longest list in a response tree a Flatten starts from.
MaxListLen == 2

(***************************************************************************)
(* Inputs: what the subgraphs answer.  The coordinator is an opaque        *)
(* transport, so every result of a service's set may come back for any     *)
(* query sent to that service.                                             *)
(***************************************************************************)
Obj1(k1, v1) == Object(k1 :> v1)
Obj2(k1, v1, k2, v2) == Object(k1 :> v1 @@ k2 :> v2)
Obj3(k1, v1, k2, v2, k3, v3) == Object(k1 :> v1 @@ k2 :> v2 @@ k3 :> v3)

Location(line, column) == [line |-> line, column |-> column]
ErrBad == ServerError("bad", <<Location(1, 2)>>)
ErrWorse == ServerError("worse", <<>>)
Timeout == TransportError("request timed out")

\* Sequences over S of length at most n.
SeqUpTo(S, n) == UNION {[1..k -> S] : k \in 0..n}

Entities == {Obj1("age", Number(42)), Obj1("__key0_id", String("z"))}

EntityResults(max) ==
    {Ok(Response(Obj1("_entities", List(es)), <<>>)) : es \in SeqUpTo(Entities, max)}
    \cup {Ok(Response(Null, <<>>)),
          Ok(Response(Obj1("other", Number(1)), <<>>)),
          Ok(Response(Obj1("_entities", String("none")), <<>>)),
          Ok(Response(Obj1("_entities", List(<<Obj1("age", Number(42))>>)), <<ErrBad, ErrWorse>>)),
          Err(Timeout)}

\* The data a subgraph may return to a Fetch, for the merge engine: scalars,
\* objects that share keys or not, and lists of every length up to MaxListLen.
MergeElements == {Null, Obj1("a", Number(1)), Obj1("b", Number(2))}

MergeValues ==
    {Null, Number(1), Number(2), List(<<Number(1)>>),
     Object(EmptyMap), Obj1("a", Number(1)), Obj1("a", Number(2)), Obj1("a", Null),
     Obj1("b", Number(2)), Obj1("a", Obj1("b", Number(2))), Obj1("a", Obj1("c", Number(3))),
     Obj1("l", Obj1("b", Number(2)))}
    \cup {Obj1("l", List(l)) : l \in SeqUpTo(MergeElements, MaxListLen)}

Results(service) ==
    CASE service = "A" ->
           {Ok(Response(Obj1("u", Obj2("__key0_id", String("7"), "name", String("n"))), <<>>)),
            Ok(Response(Obj1("u", Null), <<>>)),
            Ok(Response(Obj1("u", Obj3("__key0_id", String("7"), "__key10_id", String("9"),
                                      "inner", Obj1("__key0_x", String("1")))), <<>>)),
            Ok(Response(Obj1("items", List(<<Obj1("__key0_id", String("1")),
                                            Obj1("__key0_id", String("2"))>>)), <<>>)),
            Ok(Response(Obj1("items", List(<<Null, Obj1("__key0_id", String("2"))>>)), <<>>)),
            Ok(Response(Obj1("x", Number(1)), <<ErrBad>>)),
            Err(Timeout)}
      [] service = "B" -> EntityResults(MaxEntities)
      [] service = "C" ->
           {Ok(Response(Obj1("x", Number(1)), <<>>)),
            Ok(Response(Obj1("y", Obj1("a", Number(1))), <<>>)),
            Ok(Response(Obj1("x", Number(9)), <<ErrWorse, ErrBad>>)),
            Err(Timeout)}
      [] service = "D" ->
           {Ok(Response(Obj1("x", Number(2)), <<>>)),
            Ok(Response(Obj1("y", Obj1("b", Number(2))), <<>>)),
            Ok(Response(Obj1("z", List(<<Number(3)>>)), <<>>)),
            Err(TransportError("connection refused"))}
      [] service = "M" -> {Ok(Response(v, <<>>)) : v \in MergeValues}
      [] service = "E" ->
           {Ok(Response(Obj1("_entities", List(<<Obj1("age", Number(42))>>)), <<>>)),
            Ok(Response(Obj1("_entities", List(<<Obj1("age", Number(42)),
                                                Obj1("v", String("b"))>>)), <<>>)),
            Err(Timeout)}

(***************************************************************************)
(* Inputs: the plans handed to execute.                                    *)
(***************************************************************************)
PathU == <<PathSegment("u", FALSE)>>
PathItems == <<PathSegment("items", TRUE)>>

Plans ==
    { <<SequenceNode(<<2, 3>>), FetchNode("A"), FlattenNode("B", PathU, 0)>>,
      <<SequenceNode(<<2, 3>>), FetchNode("A"), FlattenNode("B", PathItems, 0)>>,
      <<ParallelNode(<<2, 3>>), FetchNode("C"), FetchNode("D")>>,
      <<SequenceNode(<<2, 5>>), ParallelNode(<<3, 4>>), FetchNode("C"), FetchNode("D"),
        FetchNode("C")>>,
      <<SequenceNode(<<2, 3>>), FetchNode("A"), ParallelNode(<<4, 5>>),
        FlattenNode("E", PathItems, 0), FlattenNode("E", PathItems, 0)>>,
      <<ParallelNode(<<2, 5>>), SequenceNode(<<3, 4>>), FetchNode("C"), FetchNode("D"),
        FetchNode("C")>>,
      <<SequenceNode(<<2, 3>>), FetchNode("A"), ParallelNode(<<4, 5>>),
        FlattenNode("B", PathU, 0), FetchNode("D")>>,
      <<ParallelNode(<<>>)>>,
      <<SequenceNode(<<2, 3>>),
        IntrospectionNode(Obj1("__schema", Obj1("queryType", String("Query")))),
        FetchNode("C")>>,
      <<FetchNode("A")>> }

(***************************************************************************)
(* The state of one execute call.                                          *)
(*   plan       the plan tree (immutable)                                  *)
(*   pc         where each node's future stands                            *)
(*   iter       a Sequence's position in `for node in &sequence.nodes`     *)
(*   resp       the content of Executor.resp                               *)
(*   resp_lock  the node holding the guard of Executor.resp, 0 when free   *)
(*   call       each node's coordinator query: its variables, whether it   *)
(*              is outstanding, and its result                             *)
(*   issued     how many coordinator queries each node has made            *)
(*   returned   execute has returned the response                          *)
(***************************************************************************)
VARIABLES plan, pc, iter, resp, resp_lock, call, issued, returned, validation

vars == <<plan, pc, iter, resp, resp_lock, call, issued, returned, validation>>

Nodes == DOMAIN plan

NoCall == [st |-> "none"]

\* No input value is being validated.
NotValidating == [st |-> "none"]

\* Executor::new, before execute.
Init ==
    /\ plan \in Plans
    /\ pc = [n \in DOMAIN plan |-> "pending"]
    /\ iter = [n \in DOMAIN plan |-> 0]
    /\ resp = Response(Null, <<>>)
    /\ resp_lock = 0
    /\ call = [n \in DOMAIN plan |-> NoCall]
    /\ issued = [n \in DOMAIN plan |-> 0]
    /\ returned = FALSE
    /\ validation = NotValidating

\* execute: self.execute_node(node) is started on the root.
Execute ==
    /\ pc[Root] = "pending"
    /\ ~returned
    /\ pc' = [pc EXCEPT ![Root] = "running"]
    /\ UNCHANGED <<validation, plan, iter, resp, resp_lock, call, issued, returned>>

\* execute: the root's future has completed; self.resp.into_inner() is returned.
Return ==
    /\ pc[Root] = "done"
    /\ ~returned
    /\ returned' = TRUE
    /\ UNCHANGED <<validation, plan, pc, iter, resp, resp_lock, call, issued>>

(***************************************************************************)
(* The guard of Executor.resp (a spin::Mutex): lock() returns once the     *)
(* guard is free, and the guard is released when its holder's binding goes *)
(* out of scope.                                                           *)
(***************************************************************************)
Lock(n) ==
    /\ resp_lock = 0
    /\ resp_lock' = n

Unlock(n) ==
    /\ resp_lock = n
    /\ resp_lock' = 0

(***************************************************************************)
(* execute_sequence_node: `for node in &sequence.nodes                     *)
(* { self.execute_node(node).await }`.                                     *)
(***************************************************************************)
\* (A loop that does not await the child.)
ChildNotAwaited(n) == TRUE

\* The `.await` of the loop body: the child started last has completed.
ChildReturned(n) == IF iter[n] = 0 THEN TRUE ELSE pc[plan[n].nodes[iter[n]]] = "done"

SequenceNext(n) ==
    /\ plan[n].kind = "Sequence"
    /\ pc[n] = "running"
    /\ iter[n] < Len(plan[n].nodes)
    /\ ChildReturned(n)
    /\ iter' = [iter EXCEPT ![n] = @ + 1]
    /\ pc' = [pc EXCEPT ![plan[n].nodes[iter[n] + 1]] = "running"]
    /\ UNCHANGED <<validation, plan, resp, resp_lock, call, issued, returned>>

\* (A Sequence that gives up at the first recorded error.)
SequenceEndAtError(n) ==
    /\ plan[n].kind = "Sequence"
    /\ pc[n] = "running"
    /\ iter[n] > 0
    /\ pc[plan[n].nodes[iter[n]]] = "done"
    /\ (iter[n] = Len(plan[n].nodes) \/ Len(resp.errors) > 0)
    /\ pc' = [pc EXCEPT ![n] = "done"]
    /\ UNCHANGED <<validation, plan, iter, resp, resp_lock, call, issued, returned>>

SequenceEnd(n) ==
    /\ plan[n].kind = "Sequence"
    /\ pc[n] = "running"
    /\ iter[n] = Len(plan[n].nodes)
    /\ \A i \in 1..Len(plan[n].nodes) : pc[plan[n].nodes[i]] = "done"
    /\ pc' = [pc EXCEPT ![n] = "done"]
    /\ UNCHANGED <<validation, plan, iter, resp, resp_lock, call, issued, returned>>

(***************************************************************************)
(* execute_parallel_node: join_all over the children's futures.            *)
(***************************************************************************)
Children(n) == {plan[n].nodes[i] : i \in 1..Len(plan[n].nodes)}

ParallelStart(n) ==
    /\ plan[n].kind = "Parallel"
    /\ pc[n] = "running"
    /\ pc' = [m \in DOMAIN pc |-> IF m = n THEN "join"
                                  ELSE IF m \in Children(n) THEN "running"
                                  ELSE pc[m]]
    /\ UNCHANGED <<validation, plan, iter, resp, resp_lock, call, issued, returned>>

ParallelJoin(n) ==
    /\ plan[n].kind = "Parallel"
    /\ pc[n] = "join"
    /\ \A m \in Children(n) : pc[m] = "done"
    /\ pc' = [pc EXCEPT ![n] = "done"]
    /\ UNCHANGED <<validation, plan, iter, resp, resp_lock, call, issued, returned>>

(***************************************************************************)
(* execute_introspection_node: the resolved value (the node carries what   *)
(* IntrospectionRoot.resolve gives) is merged under the guard.             *)
(***************************************************************************)
IntrospectionLock(n) ==
    /\ plan[n].kind = "Introspection"
    /\ pc[n] = "running"
    /\ Lock(n)
    /\ pc' = [pc EXCEPT ![n] = "locked"]
    /\ UNCHANGED <<validation, plan, iter, resp, call, issued, returned>>

IntrospectionMerge(n) ==
    /\ plan[n].kind = "Introspection"
    /\ pc[n] = "locked"
    /\ resp' = [resp EXCEPT !.data = merge_data(@, plan[n].value)]
    /\ Unlock(n)
    /\ pc' = [pc EXCEPT ![n] = "done"]
    /\ UNCHANGED <<validation, plan, iter, call, issued, returned>>

(***************************************************************************)
(* The coordinator: a query is outstanding until the coordinator returns   *)
(* a result, which it may never do.                                        *)
(***************************************************************************)
Query(n, variables) ==
    /\ call' = [call EXCEPT ![n] = [st |-> "outstanding", variables |-> variables]]
    /\ issued' = [issued EXCEPT ![n] = @ + 1]

CoordinatorReturns(n) ==
    /\ call[n].st = "outstanding"
    /\ \E res \in Results(plan[n].service) :
          call' = [call EXCEPT ![n] = [st |-> "returned",
                                       variables |-> call[n].variables,
                                       res |-> res]]
    /\ UNCHANGED <<validation, plan, pc, iter, resp, resp_lock, issued, returned>>

CoordinatorNeverReturns(n) ==
    /\ call[n].st = "outstanding"
    /\ call' = [call EXCEPT ![n] = [st |-> "never", variables |-> call[n].variables]]
    /\ UNCHANGED <<validation, plan, pc, iter, resp, resp_lock, issued, returned>>

(***************************************************************************)
(* execute_fetch_node.                                                     *)
(***************************************************************************)
\* `match res { ... }` on the locked response: the response afterwards.
\* (An integration that records nothing for a transport error.)
fetch_integrate_dropping_failure(current_resp, res) ==
    IF res.ok
    THEN IF Len(res.resp.errors) = 0
         THEN [current_resp EXCEPT !.data = merge_data(@, res.resp.data)]
         ELSE [current_resp EXCEPT !.errors = merge_errors(@, res.resp.errors)]
    ELSE current_resp

fetch_integrate(current_resp, res) ==
    IF res.ok
    THEN IF Len(res.resp.errors) = 0
         THEN [current_resp EXCEPT !.data = merge_data(@, res.resp.data)]
         ELSE [current_resp EXCEPT !.errors = merge_errors(@, res.resp.errors)]
    ELSE [current_resp EXCEPT !.errors = Append(@, ServerError(to_string(res.err), <<>>))]

FetchQuery(n) ==
    /\ plan[n].kind = "Fetch"
    /\ pc[n] = "running"
    /\ Query(n, EmptyMap)
    /\ pc' = [pc EXCEPT ![n] = "await"]
    /\ UNCHANGED <<validation, plan, iter, resp, resp_lock, returned>>

FetchLock(n) ==
    /\ plan[n].kind = "Fetch"
    /\ pc[n] = "await"
    /\ call[n].st = "returned"
    /\ Lock(n)
    /\ pc' = [pc EXCEPT ![n] = "locked"]
    /\ UNCHANGED <<validation, plan, iter, resp, call, issued, returned>>

FetchIntegrate(n) ==
    /\ plan[n].kind = "Fetch"
    /\ pc[n] = "locked"
    /\ resp' = fetch_integrate(resp, call[n].res)
    /\ Unlock(n)
    /\ pc' = [pc EXCEPT ![n] = "done"]
    /\ UNCHANGED <<validation, plan, iter, call, issued, returned>>

(***************************************************************************)
(* execute_flatten_node.                                                   *)
(***************************************************************************)
\* The guard at the end of the block that builds the variables: `resp`, the
\* MutexGuard bound inside the block, is dropped there.
\* (A guard that outlives the block.)
GuardKeptAfterCollect(n) == n

GuardAfterCollect(n) == 0

\* (An integrate phase that merges the entities of a reply that has errors.)
flatten_integrate_despite_errors(current_resp, flatten, res) ==
    IF res.ok
    THEN LET merged ==
                 IF /\ IsObject(res.resp.data)
                    /\ "_entities" \in DOMAIN res.resp.data.o
                    /\ IsList(res.resp.data.o["_entities"])
                 THEN [current_resp EXCEPT !.data =
                          flatten_values(@, flatten.path, 0,
                                         res.resp.data.o["_entities"].l).target]
                 ELSE current_resp
         IN  [merged EXCEPT !.errors = merge_errors(@, res.resp.errors)]
    ELSE [current_resp EXCEPT !.errors = Append(@, ServerError(to_string(res.err), <<>>))]

\* (An integrate phase that records a reply without entities as an error.)
flatten_integrate_reporting_shape(current_resp, flatten, res) ==
    IF res.ok
    THEN IF Len(res.resp.errors) = 0
         THEN IF /\ IsObject(res.resp.data)
                 /\ "_entities" \in DOMAIN res.resp.data.o
                 /\ IsList(res.resp.data.o["_entities"])
              THEN [current_resp EXCEPT !.data =
                       flatten_values(@, flatten.path, 0,
                                      res.resp.data.o["_entities"].l).target]
              ELSE [current_resp EXCEPT !.errors =
                       Append(@, ServerError("no _entities", <<>>))]
         ELSE [current_resp EXCEPT !.errors = merge_errors(@, res.resp.errors)]
    ELSE [current_resp EXCEPT !.errors = Append(@, ServerError(to_string(res.err), <<>>))]

\* `match res { ... }` on the locked response: the response afterwards.
flatten_integrate(current_resp, flatten, res) ==
    IF res.ok
    THEN IF Len(res.resp.errors) = 0
         THEN IF /\ IsObject(res.resp.data)
                 /\ "_entities" \in DOMAIN res.resp.data.o
                 /\ IsList(res.resp.data.o["_entities"])
              THEN [current_resp EXCEPT !.data =
                       flatten_values(@, flatten.path, 0,
                                      res.resp.data.o["_entities"].l).target]
              ELSE current_resp
         ELSE [current_resp EXCEPT !.errors = merge_errors(@, res.resp.errors)]
    ELSE [current_resp EXCEPT !.errors = Append(@, ServerError(to_string(res.err), <<>>))]

FlattenCollectLock(n) ==
    /\ plan[n].kind = "Flatten"
    /\ pc[n] = "running"
    /\ Lock(n)
    /\ pc' = [pc EXCEPT ![n] = "collect"]
    /\ UNCHANGED <<validation, plan, iter, resp, call, issued, returned>>

FlattenCollect(n) ==
    /\ plan[n].kind = "Flatten"
    /\ pc[n] = "collect"
    /\ resp_lock = n
    /\ LET r == get_representations(<<>>, resp.data, plan[n].path, plan[n].prefix)
       IN  /\ resp' = [resp EXCEPT !.data = r.value]
           /\ call' = [call EXCEPT ![n] =
                          [st |-> "ready",
                           variables |-> ("representations" :> List(r.representations))]]
    /\ resp_lock' = GuardAfterCollect(n)
    /\ pc' = [pc EXCEPT ![n] = "collected"]
    /\ UNCHANGED <<validation, plan, iter, issued, returned>>

FlattenQuery(n) ==
    /\ plan[n].kind = "Flatten"
    /\ pc[n] = "collected"
    /\ Query(n, call[n].variables)
    /\ pc' = [pc EXCEPT ![n] = "await"]
    /\ UNCHANGED <<validation, plan, iter, resp, resp_lock, returned>>

FlattenLock(n) ==
    /\ plan[n].kind = "Flatten"
    /\ pc[n] = "await"
    /\ call[n].st = "returned"
    /\ Lock(n)
    /\ pc' = [pc EXCEPT ![n] = "locked"]
    /\ UNCHANGED <<validation, plan, iter, resp, call, issued, returned>>

FlattenIntegrate(n) ==
    /\ plan[n].kind = "Flatten"
    /\ pc[n] = "locked"
    /\ resp' = flatten_integrate(resp, plan[n], call[n].res)
    /\ Unlock(n)
    /\ pc' = [pc EXCEPT ![n] = "done"]
    /\ UNCHANGED <<validation, plan, iter, call, issued, returned>>

(***************************************************************************)
(* The executor from construction: every interleaving of the plan's        *)
(* futures and of the coordinator.                                         *)
(***************************************************************************)
Next ==
    \/ Execute
    \/ Return
    \/ \E n \in Nodes : SequenceNext(n)
    \/ \E n \in Nodes : SequenceEnd(n)
    \/ \E n \in Nodes : ParallelStart(n)
    \/ \E n \in Nodes : ParallelJoin(n)
    \/ \E n \in Nodes : IntrospectionLock(n)
    \/ \E n \in Nodes : IntrospectionMerge(n)
    \/ \E n \in Nodes : FetchQuery(n)
    \/ \E n \in Nodes : FetchLock(n)
    \/ \E n \in Nodes : FetchIntegrate(n)
    \/ \E n \in Nodes : FlattenCollectLock(n)
    \/ \E n \in Nodes : FlattenCollect(n)
    \/ \E n \in Nodes : FlattenQuery(n)
    \/ \E n \in Nodes : FlattenLock(n)
    \/ \E n \in Nodes : FlattenIntegrate(n)
    \/ \E n \in Nodes : CoordinatorReturns(n)
    \/ \E n \in Nodes : CoordinatorNeverReturns(n)

Spec == Init /\ [][Next]_vars

(***************************************************************************)
(* Fairness of the executor: the runtime polls every future that can make  *)
(* a step, and a coordinator call that is going to return does return.     *)
(***************************************************************************)
ExecutorStep ==
    \/ Execute
    \/ Return
    \/ \E n \in Nodes : SequenceNext(n)
    \/ \E n \in Nodes : SequenceEnd(n)
    \/ \E n \in Nodes : ParallelStart(n)
    \/ \E n \in Nodes : ParallelJoin(n)
    \/ \E n \in Nodes : IntrospectionLock(n)
    \/ \E n \in Nodes : IntrospectionMerge(n)
    \/ \E n \in Nodes : FetchQuery(n)
    \/ \E n \in Nodes : FetchLock(n)
    \/ \E n \in Nodes : FetchIntegrate(n)
    \/ \E n \in Nodes : FlattenCollectLock(n)
    \/ \E n \in Nodes : FlattenCollect(n)
    \/ \E n \in Nodes : FlattenQuery(n)
    \/ \E n \in Nodes : FlattenLock(n)
    \/ \E n \in Nodes : FlattenIntegrate(n)

CoordinatorStep == \E n \in Nodes : CoordinatorReturns(n)

LiveSpec == Init /\ [][Next]_vars /\ WF_vars(ExecutorStep) /\ WF_vars(CoordinatorStep)

(***************************************************************************)
(* A Flatten on an arbitrary response tree: the executor at the point      *)
(* where the first child of Sequence[Fetch, Flatten] has returned and its  *)
(* data, any tree of Trees, has been merged into the response.             *)
(***************************************************************************)
TerminalValues ==
    {Obj1("__key0_id", String("1")),
     Obj2("__key0_id", String("2"), "name", String("n")),
     Obj3("__key1_id", String("7"), "__key10_id", String("9"),
          "inner", Obj1("__key0_x", String("1"))),
     Null,
     String("s")}

Trees ==
    {Obj1("u", t) : t \in TerminalValues}
    \cup {Obj1("items", List(l)) : l \in SeqUpTo(TerminalValues, MaxListLen)}
    \cup {Obj1("a", Obj1("u", t)) : t \in TerminalValues}
    \cup {Obj1("a", List(l)) :
             l \in SeqUpTo({Obj1("u", Obj1("__key0_id", String("1"))), Obj1("u", Null), Null},
                           MaxListLen)}

Paths ==
    {PathU,
     PathItems,
     <<PathSegment("a", FALSE), PathSegment("u", FALSE)>>,
     <<PathSegment("a", TRUE), PathSegment("u", FALSE)>>}

Prefixes == {0, 1}

InitFlatten ==
    /\ \E path \in Paths, prefix \in Prefixes :
          plan = <<SequenceNode(<<2, 3>>), FetchNode("T"), FlattenNode("B", path, prefix)>>
    /\ pc = <<"running", "done", "pending">>
    /\ iter = <<1, 0, 0>>
    /\ \E tree \in Trees :
          /\ call = <<NoCall,
                      [st |-> "returned", variables |-> EmptyMap,
                       res |-> Ok(Response(tree, <<>>))],
                      NoCall>>
          /\ resp = fetch_integrate(Response(Null, <<>>), Ok(Response(tree, <<>>)))
    /\ resp_lock = 0
    /\ issued = <<0, 1, 0>>
    /\ returned = FALSE
    /\ validation = NotValidating

NextFlatten ==
    \/ Return
    \/ \E n \in Nodes : SequenceNext(n)
    \/ \E n \in Nodes : SequenceEnd(n)
    \/ \E n \in Nodes : FlattenCollectLock(n)
    \/ \E n \in Nodes : FlattenCollect(n)
    \/ \E n \in Nodes : FlattenQuery(n)
    \/ \E n \in Nodes : FlattenLock(n)
    \/ \E n \in Nodes : FlattenIntegrate(n)
    \/ \E n \in Nodes : CoordinatorReturns(n)

FlattenSpec == InitFlatten /\ [][NextFlatten]_vars

(***************************************************************************)
(* Definitions the properties are stated with.                             *)
(***************************************************************************)
\* The nodes of the subtree of the plan rooted at n.
RECURSIVE Subtree(_)
Subtree(n) ==
    IF plan[n].kind \in {"Sequence", "Parallel"}
    THEN {n} \cup UNION {Subtree(plan[n].nodes[i]) : i \in 1..Len(plan[n].nodes)}
    ELSE {n}

\* Node n has started: it has run, queried the coordinator or touched the guard.
Started(n) ==
    \/ pc[n] # "pending"
    \/ issued[n] > 0
    \/ call[n].st # "none"
    \/ resp_lock = n

IsLeafQuery(n) == plan[n].kind \in {"Fetch", "Flatten"}

\* The result of node n's query, once it has one.
HasResult(n) == call[n].st = "returned"
Succeeded(n) == HasResult(n) /\ call[n].res.ok /\ Len(call[n].res.resp.errors) = 0
SubgraphFailed(n) == HasResult(n) /\ call[n].res.ok /\ Len(call[n].res.resp.errors) > 0
TransportFailed(n) == HasResult(n) /\ ~call[n].res.ok

\* old is a prefix of new, and the k entries after it are the rest of new.
Appended(old, new, k) ==
    /\ Len(new) = Len(old) + k
    /\ \A i \in 1..Len(old) : new[i] = old[i]

(***************************************************************************)
(* C1.  In a Sequence, nothing of child i+1 (nor of its descendants) has   *)
(* started -- no coordinator call, no access to the response -- unless     *)
(* child i and all of its descendants are done: the children run in        *)
(* declaration order, one after the other.                                 *)
(***************************************************************************)
C1_SequenceOrder ==
    \A s \in Nodes :
        plan[s].kind = "Sequence" =>
            \A i \in 1..(Len(plan[s].nodes) - 1) :
                (\E m \in Subtree(plan[s].nodes[i + 1]) : Started(m))
                    => \A m \in Subtree(plan[s].nodes[i]) : pc[m] = "done"

\* The child after a Parallel child has queried the coordinator.
C1_Witness ==
    \E s \in Nodes :
        /\ plan[s].kind = "Sequence"
        /\ Len(plan[s].nodes) = 2
        /\ plan[plan[s].nodes[1]].kind = "Parallel"
        /\ Len(plan[plan[s].nodes[1]].nodes) = 2
        /\ issued[plan[s].nodes[2]] = 1

(***************************************************************************)
(* C2.  No node queries the coordinator twice, and when execute returns    *)
(* every Fetch and Flatten node of the plan has queried it exactly once,   *)
(* whatever the earlier nodes' results were and whatever the Flatten       *)
(* collected.                                                              *)
(***************************************************************************)
C2_OneQueryEach ==
    /\ \A n \in Nodes : issued[n] <= 1
    /\ returned => \A n \in Nodes : IsLeafQuery(n) => issued[n] = 1

\* execute has returned, the Fetch failed in transport, and the Flatten after
\* it was dispatched with an empty representation list.
C2_Witness ==
    /\ returned
    /\ plan[Root].kind = "Sequence"
    /\ Len(plan[Root].nodes) = 2
    /\ LET first == plan[Root].nodes[1]
           second == plan[Root].nodes[2]
       IN  /\ plan[first].kind = "Fetch"
           /\ TransportFailed(first)
           /\ plan[second].kind = "Flatten"
           /\ issued[second] = 1
           /\ call[second].variables["representations"] = List(<<>>)

(***************************************************************************)
(* C3.  A Parallel of Fetch nodes is done only when all its children are,  *)
(* and then (nothing else having touched the response) the data is the     *)
(* same whatever the order in which the coordinator calls completed: when  *)
(* the fragments of the children that succeeded without errors are objects *)
(* on pairwise disjoint key paths, it is their merge; the errors are one   *)
(* per child that failed in transport, with that child's message, plus the *)
(* errors the subgraphs reported.                                          *)
(***************************************************************************)
\* The key paths of a fragment: the paths from the root, through objects, to
\* every value that is not a non-empty object.
RECURSIVE KeyPaths(_)
KeyPaths(v) ==
    IF IsObject(v) /\ DOMAIN v.o # {}
    THEN UNION {{<<key>> \o path : path \in KeyPaths(v.o[key])} : key \in DOMAIN v.o}
    ELSE {<<>>}

IsPrefixOf(p, q) == Len(p) <= Len(q) /\ SubSeq(q, 1, Len(p)) = p

DisjointKeyPaths(f, g) ==
    \A p \in KeyPaths(f), q \in KeyPaths(g) : ~IsPrefixOf(p, q) /\ ~IsPrefixOf(q, p)

ParallelOfFetches(p) ==
    /\ plan[p].kind = "Parallel"
    /\ \A c \in Children(p) : plan[c].kind = "Fetch"

\* No leaf outside the subtree of p has started.
OnlyRan(p) ==
    \A m \in Nodes \ Subtree(p) :
        plan[m].kind \in {"Fetch", "Flatten", "Introspection"} => ~Started(m)

\* The fragments of the succeeded nodes among nodes[i..], merged into data in
\* declaration order.
RECURSIVE MergedInOrder(_, _, _)
MergedInOrder(data, nodes, i) ==
    IF i > Len(nodes) THEN data
    ELSE MergedInOrder(IF Succeeded(nodes[i])
                       THEN merge_data(data, call[nodes[i]].res.resp.data)
                       ELSE data,
                       nodes, i + 1)

\* How many errors the nodes[i..] account for.
RECURSIVE ErrorsDue(_, _)
ErrorsDue(nodes, i) ==
    IF i > Len(nodes) THEN 0
    ELSE (IF TransportFailed(nodes[i]) THEN 1
          ELSE IF SubgraphFailed(nodes[i]) THEN Len(call[nodes[i]].res.resp.errors)
          ELSE 0) + ErrorsDue(nodes, i + 1)

C3_ParallelFetches ==
    \A p \in Nodes :
        (ParallelOfFetches(p) /\ pc[p] = "done") =>
            /\ \A c \in Children(p) : pc[c] = "done"
            /\ OnlyRan(p) =>
                  LET ok == {c \in Children(p) : Succeeded(c)}
                      fragment(c) == call[c].res.resp.data
                  IN  /\ ( /\ \A c \in ok : IsObject(fragment(c))
                           /\ \A c \in ok, d \in ok :
                                 c # d => DisjointKeyPaths(fragment(c), fragment(d)) )
                         => resp.data = MergedInOrder(Null, plan[p].nodes, 1)
                      /\ Len(resp.errors) = ErrorsDue(plan[p].nodes, 1)
                      /\ \A c \in Children(p) :
                            TransportFailed(c) =>
                                \E i \in 1..Len(resp.errors) :
                                    resp.errors[i] =
                                        ServerError(to_string(call[c].res.err), <<>>)

\* Both children of a Parallel of Fetches succeeded, with fragments that had
\* to be merged below a common key.
C3_Witness ==
    \E p \in Nodes :
        /\ ParallelOfFetches(p)
        /\ pc[p] = "done"
        /\ OnlyRan(p)
        /\ Len(plan[p].nodes) = 2
        /\ \A c \in Children(p) : Succeeded(c)
        /\ DisjointKeyPaths(call[plan[p].nodes[1]].res.resp.data,
                            call[plan[p].nodes[2]].res.resp.data)
        /\ resp.data = Obj1("y", Obj2("a", Number(1), "b", Number(2)))

(***************************************************************************)
(* C4.  No node holds the guard of the response while its coordinator      *)
(* query is outstanding; the holder of the guard is a node that has not    *)
(* yet queried (a Flatten collecting, an Introspection) or whose query has *)
(* returned.                                                               *)
(***************************************************************************)
C4_GuardNotHeldAcrossQuery ==
    \A n \in Nodes :
        /\ call[n].st \in {"outstanding", "never"} => resp_lock # n
        /\ resp_lock = n =>
              \/ plan[n].kind = "Introspection"
              \/ plan[n].kind = "Fetch" /\ call[n].st = "returned"
              \/ plan[n].kind = "Flatten" /\ pc[n] = "collect" /\ call[n].st = "none"
              \/ plan[n].kind = "Flatten" /\ pc[n] = "locked" /\ call[n].st = "returned"

\* A Flatten's query is outstanding while a sibling holds the guard.
C4_Witness ==
    \E n \in Nodes, m \in Nodes :
        /\ n # m
        /\ plan[n].kind = "Flatten"
        /\ call[n].st = "outstanding"
        /\ resp_lock = m

(***************************************************************************)
(* C5.  Under fair scheduling execute returns unless some coordinator call *)
(* never returns, and it does not return when one never does.              *)
(***************************************************************************)
SomeCallNeverReturns == \E n \in Nodes : call[n].st = "never"

C5_TerminatesIffCallsDo ==
    /\ <>(returned \/ SomeCallNeverReturns)
    /\ [](SomeCallNeverReturns => ~returned)

\* execute has returned from a plan whose Flatten nodes ran in Parallel.
C5_Witness ==
    /\ returned
    /\ \E p \in Nodes :
          /\ plan[p].kind = "Parallel"
          /\ \E c \in Children(p) : plan[c].kind = "Flatten"

(***************************************************************************)
(* C6.  The step that integrates a Fetch result with a non-empty errors    *)
(* list leaves the data as it was and appends one error per returned       *)
(* error, in order, with the same message and no locations.                *)
(***************************************************************************)
FetchIntegrates(n) == plan[n].kind = "Fetch" /\ pc[n] = "locked" /\ pc'[n] = "done"

C6_FetchSubgraphErrors ==
    [][\A n \in Nodes :
          (FetchIntegrates(n) /\ SubgraphFailed(n)) =>
              LET returned_errors == call[n].res.resp.errors
              IN  /\ resp'.data = resp.data
                  /\ Appended(resp.errors, resp'.errors, Len(returned_errors))
                  /\ \A i \in 1..Len(returned_errors) :
                        /\ resp'.errors[Len(resp.errors) + i].message
                              = returned_errors[i].message
                        /\ resp'.errors[Len(resp.errors) + i].locations = <<>>]_vars

\* A single Fetch returned data and an error with a location: the data was
\* discarded and the error recorded without the location.
C6_Witness ==
    /\ returned
    /\ plan[Root].kind = "Fetch"
    /\ SubgraphFailed(Root)
    /\ ~IsNull(call[Root].res.resp.data)
    /\ call[Root].res.resp.errors[1].locations # <<>>
    /\ resp = Response(Null, <<ServerError("bad", <<>>)>>)

(***************************************************************************)
(* C7.  The step that integrates a transport error of a Fetch or a Flatten *)
(* appends exactly one error, whose message is the error's text and whose  *)
(* locations are empty; the data and the earlier errors are unchanged.     *)
(***************************************************************************)
Integrates(n) == IsLeafQuery(n) /\ pc[n] = "locked" /\ pc'[n] = "done"

C7_TransportFailure ==
    [][\A n \in Nodes :
          (Integrates(n) /\ TransportFailed(n)) =>
              /\ resp'.data = resp.data
              /\ Appended(resp.errors, resp'.errors, 1)
              /\ resp'.errors[Len(resp'.errors)].message = to_string(call[n].res.err)
              /\ resp'.errors[Len(resp'.errors)].locations = <<>>]_vars

\* A Fetch and the Flatten after it both failed in transport: two errors, in
\* that order, and no data.
C7_Witness ==
    /\ returned
    /\ \E f \in Nodes, g \in Nodes :
          /\ plan[f].kind = "Fetch" /\ TransportFailed(f)
          /\ plan[g].kind = "Flatten" /\ TransportFailed(g)
    /\ resp = Response(Null, <<ServerError("request timed out", <<>>),
                               ServerError("request timed out", <<>>)>>)

(***************************************************************************)
(* The sites of a path, as the properties of the Flatten speak of them.    *)
(***************************************************************************)
\* The values the path leads to: the field of the last segment, or each
\* element of the list there when the segment is a list segment.
RECURSIVE SiteValues(_, _)
SiteValues(v, path) ==
    IF Len(path) = 0 \/ ~IsObject(v) THEN {}
    ELSE IF path[1].name \notin DOMAIN v.o THEN {}
    ELSE LET field == v.o[path[1].name]
             rest == Tail(path)
         IN  IF path[1].is_list
             THEN IF ~IsList(field) THEN {}
                  ELSE IF Len(path) = 1
                       THEN {field.l[i] : i \in 1..Len(field.l)}
                       ELSE UNION {SiteValues(field.l[i], rest) : i \in 1..Len(field.l)}
             ELSE IF Len(path) = 1 THEN {field} ELSE SiteValues(field, rest)

\* The places of the objects the path leads to, in document order (depth
\* first, list indices ascending); a place is the keys and indices from the
\* root.  These are the objects a representation is extracted from.
RECURSIVE ObjectSites(_, _, _)
RECURSIVE ObjectSitesOfElements(_, _, _, _)
ObjectSitesOfElements(array, idx, rest, at) ==
    IF idx > Len(array) THEN <<>>
    ELSE (IF Len(rest) = 0
          THEN IF IsObject(array[idx]) THEN <<Append(at, idx)>> ELSE <<>>
          ELSE ObjectSites(array[idx], rest, Append(at, idx)))
         \o ObjectSitesOfElements(array, idx + 1, rest, at)

ObjectSites(v, path, at) ==
    IF Len(path) = 0 \/ ~IsObject(v) THEN <<>>
    ELSE IF path[1].name \notin DOMAIN v.o THEN <<>>
    ELSE LET field == v.o[path[1].name]
             rest == Tail(path)
             here == Append(at, path[1].name)
         IN  IF path[1].is_list
             THEN IF IsList(field) THEN ObjectSitesOfElements(field.l, 1, rest, here)
                  ELSE <<>>
             ELSE IF Len(path) = 1
                  THEN IF IsObject(field) THEN <<here>> ELSE <<>>
                  ELSE ObjectSites(field, rest, here)

\* v with the entity merged into the value at the place `at`.
RECURSIVE MergedAt(_, _, _)
MergedAt(v, at, entity) ==
    IF Len(at) = 0 THEN merge_data(v, entity)
    ELSE IF IsObject(v)
         THEN Object([v.o EXCEPT ![at[1]] = MergedAt(@, Tail(at), entity)])
         ELSE List([v.l EXCEPT ![at[1]] = MergedAt(@, Tail(at), entity)])

\* v with entities[i] merged at sites[i], for i, i+1, ...
RECURSIVE MergedAtSites(_, _, _, _)
MergedAtSites(v, sites, entities, i) ==
    IF i > Len(sites) \/ i > Len(entities) THEN v
    ELSE MergedAtSites(MergedAt(v, sites[i], entities[i]), sites, entities, i + 1)

\* Some object in v, at any depth, has a key that starts with p.
RECURSIVE HasKeyWithin(_, _)
HasKeyWithin(v, p) ==
    IF IsObject(v)
    THEN \E key \in DOMAIN v.o : starts_with(key, p) \/ HasKeyWithin(v.o[key], p)
    ELSE IF IsList(v)
    THEN \E i \in 1..Len(v.l) : HasKeyWithin(v.l[i], p)
    ELSE FALSE

HasOwnKey(v, p) == IsObject(v) /\ \E key \in DOMAIN v.o : starts_with(key, p)

\* The representations node n sent, and the entities it got back.
RepresentationsSent(n) == call[n].variables["representations"].l

ReturnedEntities(n) ==
    /\ Succeeded(n)
    /\ IsObject(call[n].res.resp.data)
    /\ "_entities" \in DOMAIN call[n].res.resp.data.o
    /\ IsList(call[n].res.resp.data.o["_entities"])

EntitiesOf(n) == call[n].res.resp.data.o["_entities"].l

(***************************************************************************)
(* C8, as claimed.  Once a Flatten with path p and prefix k is done, no    *)
(* object in the subtrees that p leads to has a key beginning with         *)
(* "__key<k>_".                                                            *)
(***************************************************************************)
C8_NoKeyAfterFlatten ==
    \A n \in Nodes :
        (plan[n].kind = "Flatten" /\ pc[n] = "done") =>
            \A site \in SiteValues(resp.data, plan[n].path) :
                ~HasKeyWithin(site, KeyPrefix(plan[n].prefix))

(***************************************************************************)
(* C8, amended.  The collect step of a Flatten with path p and prefix k    *)
(* leaves no object at a site of p with a key of its own beginning with    *)
(* "__key<k>_".                                                            *)
(***************************************************************************)
C8_NoOwnKeyAfterCollect ==
    [][\A n \in Nodes :
          (plan[n].kind = "Flatten" /\ pc[n] = "collect" /\ pc'[n] = "collected") =>
              \A site \in SiteValues(resp'.data, plan[n].path) :
                  ~HasOwnKey(site, KeyPrefix(plan[n].prefix))]_vars

\* The collect step has extracted a key from a site, and a key of the same
\* prefix is still there deeper inside the site.
C8_Witness ==
    \E n \in Nodes :
        /\ plan[n].kind = "Flatten"
        /\ pc[n] = "collected"
        /\ \E i \in 1..Len(RepresentationsSent(n)) :
              DOMAIN RepresentationsSent(n)[i].o # {}
        /\ \E site \in SiteValues(resp.data, plan[n].path) :
              /\ ~HasOwnKey(site, KeyPrefix(plan[n].prefix))
              /\ HasKeyWithin(site, KeyPrefix(plan[n].prefix))

(***************************************************************************)
(* C9, as claimed.  The collect traversal appends as many representations  *)
(* as the integrate traversal, over the same tree and path and given       *)
(* enough entities, consumes entities.                                     *)
(***************************************************************************)
\* How many values v holds, itself included: no traversal visits more sites.
RECURSIVE Size(_)
RECURSIVE SizeOfElements(_, _)
SizeOfElements(array, idx) ==
    IF idx > Len(array) THEN 0 ELSE Size(array[idx]) + SizeOfElements(array, idx + 1)

Size(v) ==
    IF IsList(v) THEN 1 + SizeOfElements(v.l, 1)
    ELSE IF IsObject(v) /\ DOMAIN v.o # {}
    THEN LET key == CHOOSE k \in DOMAIN v.o : TRUE
         IN  Size(v.o[key]) + Size(Object([k \in (DOMAIN v.o) \ {key} |-> v.o[k]]))
    ELSE 1

EnoughEntities(v) == [i \in 1..Size(v) |-> Object(EmptyMap)]

C9_RepresentationsMatchSites ==
    \A n \in Nodes :
        (plan[n].kind = "Flatten" /\ pc[n] = "collected") =>
            Len(RepresentationsSent(n))
                = flatten_values(resp.data, plan[n].path, 0, EnoughEntities(resp.data)).n

(***************************************************************************)
(* C10, as claimed.  When the sub-query returns as many entities as it was *)
(* sent representations, the integrate step merges entity i into the       *)
(* object representation i was extracted from, and changes nothing else.   *)
(***************************************************************************)
C10_EntityMergedAtItsSite ==
    [][\A n \in Nodes :
          ( /\ plan[n].kind = "Flatten"
            /\ pc[n] = "locked"
            /\ pc'[n] = "done"
            /\ ReturnedEntities(n)
            /\ Len(EntitiesOf(n)) = Len(RepresentationsSent(n)) ) =>
              /\ resp'.data = MergedAtSites(resp.data,
                                            ObjectSites(resp.data, plan[n].path, <<>>),
                                            EntitiesOf(n), 1)
              /\ resp'.errors = resp.errors]_vars

(***************************************************************************)
(* The merge engine under the executor: Sequence[Fetch, Fetch, Fetch]      *)
(* against a subgraph that returns any value of MergeValues as data, so    *)
(* that the response is a target T = the first data, merged with a         *)
(* fragment, merged with another fragment.                                 *)
(***************************************************************************)
MergePlan ==
    <<SequenceNode(<<2, 3, 4>>), FetchNode("M"), FetchNode("M"), FetchNode("M")>>

InitMerge ==
    /\ plan = MergePlan
    /\ pc = [n \in DOMAIN MergePlan |-> "pending"]
    /\ iter = [n \in DOMAIN MergePlan |-> 0]
    /\ resp = Response(Null, <<>>)
    /\ resp_lock = 0
    /\ call = [n \in DOMAIN MergePlan |-> NoCall]
    /\ issued = [n \in DOMAIN MergePlan |-> 0]
    /\ returned = FALSE
    /\ validation = NotValidating

NextMerge ==
    \/ Execute
    \/ Return
    \/ \E n \in Nodes : SequenceNext(n)
    \/ \E n \in Nodes : SequenceEnd(n)
    \/ \E n \in Nodes : FetchQuery(n)
    \/ \E n \in Nodes : FetchLock(n)
    \/ \E n \in Nodes : FetchIntegrate(n)
    \/ \E n \in Nodes : CoordinatorReturns(n)

MergeSpec == InitMerge /\ [][NextMerge]_vars

(***************************************************************************)
(* The merges of a run of MergePlan: the first Fetch makes the response    *)
(* the target T, the second and the third merge one fragment each.         *)
(***************************************************************************)
DataOf(n) == call[n].res.resp.data

\* The step in which node n merges the data it got into the response.
Merges(n) == FetchIntegrates(n) /\ Succeeded(n)

\* new keeps all of old: a scalar of old is the same scalar at the same
\* place of new, an object of old is an object with at least its keys, a
\* list of old is a list of the same length; only a null of old may have
\* become anything.
RECURSIVE Keeps(_, _)
Keeps(old, new) ==
    IF IsNull(old) THEN TRUE
    ELSE IF IsObject(old)
    THEN /\ IsObject(new)
         /\ DOMAIN old.o \subseteq DOMAIN new.o
         /\ \A key \in DOMAIN old.o : Keeps(old.o[key], new.o[key])
    ELSE IF IsList(old)
    THEN /\ IsList(new)
         /\ Len(new.l) = Len(old.l)
         /\ \A idx \in 1..Len(old.l) : Keeps(old.l[idx], new.l[idx])
    ELSE new = old

\* Some scalar of v, at any depth, is not null.
RECURSIVE HasScalar(_)
HasScalar(v) ==
    IF IsNull(v) THEN FALSE
    ELSE IF IsObject(v) THEN \E key \in DOMAIN v.o : HasScalar(v.o[key])
    ELSE IF IsList(v) THEN \E idx \in 1..Len(v.l) : HasScalar(v.l[idx])
    ELSE TRUE

(***************************************************************************)
(* C11.  A merge leaves every non-null scalar of the target at its place   *)
(* with its value: the step that merges a fragment into the response only  *)
(* fills nulls and adds absent keys, so the response after it keeps all of *)
(* the response before it.                                                 *)
(***************************************************************************)
C11_MergeKeepsScalars ==
    [][\A n \in Nodes : Merges(n) => Keeps(resp.data, resp'.data)]_vars

\* A target with a null and an object in a list took a fragment that fills
\* the null and gives the object another value for the key it has, then a
\* fragment with a new key: the scalar is as it was.
C11_Witness ==
    /\ returned
    /\ DataOf(2) = Obj1("l", List(<<Null, Obj1("a", Number(1))>>))
    /\ DataOf(3) = Obj1("l", List(<<Obj1("b", Number(2)), Obj1("b", Number(2))>>))
    /\ DataOf(4) = Obj1("a", Number(2))
    /\ resp.data = Obj2("l", List(<<Obj1("b", Number(2)),
                                    Obj2("a", Number(1), "b", Number(2))>>),
                        "a", Number(2))

(***************************************************************************)
(* C12.  merge_data is idempotent: when a Fetch merges the same data that  *)
(* the Fetch before it in the Sequence has just merged, the response data  *)
(* does not change.                                                        *)
(***************************************************************************)
\* m is the child before n in a Sequence.
Precedes(m, n) ==
    \E s \in Nodes :
        /\ plan[s].kind = "Sequence"
        /\ \E i \in 1..(Len(plan[s].nodes) - 1) :
              plan[s].nodes[i] = m /\ plan[s].nodes[i + 1] = n

C12_MergeIdempotent ==
    [][\A n \in Nodes, m \in Nodes :
          (Merges(n) /\ Precedes(m, n) /\ Succeeded(m) /\ DataOf(m) = DataOf(n))
              => resp'.data = resp.data]_vars

\* The same list fragment was merged twice into a target that has a null
\* where the fragment has the list.
C12_Witness ==
    /\ returned
    /\ DataOf(2) = Obj1("a", Number(1))
    /\ DataOf(3) = Obj1("l", List(<<Obj1("a", Number(1)), Null>>))
    /\ DataOf(4) = DataOf(3)
    /\ resp.data = Obj2("a", Number(1), "l", List(<<Obj1("a", Number(1)), Null>>))

(***************************************************************************)
(* The leaf paths of a fragment: the keys and indices from the root,       *)
(* through objects and lists, to every value that is neither a non-empty   *)
(* object nor a non-empty list.                                            *)
(***************************************************************************)
RECURSIVE LeafPaths(_)
LeafPaths(v) ==
    IF IsObject(v) /\ DOMAIN v.o # {}
    THEN UNION {{<<<<"key", key>>>> \o path : path \in LeafPaths(v.o[key])}
                   : key \in DOMAIN v.o}
    ELSE IF IsList(v) /\ Len(v.l) > 0
    THEN UNION {{<<<<"index", idx>>>> \o path : path \in LeafPaths(v.l[idx])}
                   : idx \in 1..Len(v.l)}
    ELSE {<<>>}

\* No leaf path of one is a leaf path of the other or leads into it.
DisjointLeafPaths(f, g) ==
    \A p \in LeafPaths(f), q \in LeafPaths(g) : ~IsPrefixOf(p, q) /\ ~IsPrefixOf(q, p)

\* Where both fragments hold an object or a list, they hold two objects or
\* two lists of the same length.
RECURSIVE SameShapeWhereShared(_, _)
SameShapeWhereShared(f, g) ==
    IF IsObject(f) /\ IsObject(g)
    THEN \A key \in (DOMAIN f.o) \cap (DOMAIN g.o) :
             SameShapeWhereShared(f.o[key], g.o[key])
    ELSE IF IsList(f) /\ IsList(g)
    THEN /\ Len(f.l) = Len(g.l)
         /\ \A idx \in 1..Len(f.l) : SameShapeWhereShared(f.l[idx], g.l[idx])
    ELSE ~((IsObject(f) /\ IsList(g)) \/ (IsList(f) /\ IsObject(g)))

\* The run of MergePlan is over; its data is T, then F1, then F2 merged.
MergedBoth == returned /\ plan = MergePlan /\ \A n \in 2..4 : Succeeded(n)

OtherOrder == merge_data(merge_data(DataOf(2), DataOf(4)), DataOf(3))

(***************************************************************************)
(* C13, as claimed.  For fragments whose leaf paths, through objects and   *)
(* lists, are disjoint, merging F1 then F2 into T gives the same tree as   *)
(* merging F2 then F1.                                                     *)
(***************************************************************************)
C13_CommutativeOnDisjointPaths ==
    (MergedBoth /\ DisjointLeafPaths(DataOf(3), DataOf(4)))
        => resp.data = OtherOrder

(***************************************************************************)
(* C13, amended.  For fragments whose leaf paths are disjoint and which    *)
(* hold, wherever both hold an object or a list, two objects or two lists  *)
(* of the same length, merging F1 then F2 into T gives the same tree as    *)
(* merging F2 then F1.                                                     *)
(***************************************************************************)
C13_CommutativeOnSameShape ==
    (/\ MergedBoth
     /\ DisjointLeafPaths(DataOf(3), DataOf(4))
     /\ SameShapeWhereShared(DataOf(3), DataOf(4)))
        => resp.data = OtherOrder

\* Two fragments with a list of the same length under the same key, and
\* different keys in its elements, were merged into a target with a null
\* for the list.
C13_Witness ==
    /\ MergedBoth
    /\ DataOf(2) = Obj1("a", Number(1))
    /\ DataOf(3) = Obj1("l", List(<<Obj1("a", Number(1)), Obj1("b", Number(2))>>))
    /\ DataOf(4) = Obj1("l", List(<<Obj1("b", Number(2)), Obj1("a", Number(1))>>))
    /\ resp.data = Obj2("a", Number(1),
                        "l", List(<<Obj2("a", Number(1), "b", Number(2)),
                                    Obj2("a", Number(1), "b", Number(2))>>))

(***************************************************************************)
(* The input validator (validation/utils.rs).                              *)
(*                                                                         *)
(* A Type is a base type, Named or List of a Type, and whether it is       *)
(* nullable; the schema maps a type name to its kind, its enum values and  *)
(* its input fields in declaration order.  A number with a fraction is a   *)
(* Number that is neither an i64 nor a u64.                                *)
(***************************************************************************)
Boolean(b) == [t |-> "Boolean", b |-> b]
Enum(e) == [t |-> "Enum", e |-> e]
Float(i, frac) == [t |-> "Number", n |-> i, frac |-> frac]
is_integer(v) == "frac" \notin DOMAIN v

BaseType_Named(type_name) == [b |-> "Named", name |-> type_name]
BaseType_List(element_ty) == [b |-> "List", ty |-> element_ty]
Type(base, nullable) == [base |-> base, nullable |-> nullable]

\* Option<T>
None == [some |-> FALSE]
Some(x) == [some |-> TRUE, value |-> x]

\* Display for Type: the name, or the element type in brackets, and "!" when
\* the type is not nullable.
RECURSIVE Type_fmt(_)
Type_fmt(ty) ==
    (IF ty.base.b = "Named" THEN ty.base.name
     ELSE "[" \o Type_fmt(ty.base.ty) \o "]")
    \o (IF ty.nullable THEN "" ELSE "!")

\* PathNode: the segments from the root, a parent before its child.
Name(name) == [seg |-> "Name", name |-> name]
Index(idx) == [seg |-> "Index", idx |-> idx]
PathNode_new(name) == <<Name(name)>>

PathNode_index(path_node, idx) == Append(path_node, Index(idx))
PathNode_name(path_node, name) == Append(path_node, Name(name))

\* Display for PathNode: the segments joined by ".".
RECURSIVE PathNode_fmt(_)
PathNode_fmt(path_node) ==
    LET segment == path_node[Len(path_node)]
        text == IF segment.seg = "Name" THEN segment.name ELSE Decimal(segment.idx)
    IN  IF Len(path_node) = 1 THEN text
        ELSE PathNode_fmt(SubSeq(path_node, 1, Len(path_node) - 1)) \o "." \o text

valid_error(path_node, msg) == "\"" \o PathNode_fmt(path_node) \o "\", " \o msg

is_valid_scalar_value(type_name, value) ==
    \/ type_name = "Int" /\ value.t = "Number" /\ is_integer(value)
    \/ type_name = "Float" /\ value.t = "Number"
    \/ type_name = "String" /\ value.t = "String"
    \/ type_name = "Boolean" /\ value.t = "Boolean"
    \/ type_name = "ID" /\ value.t = "String"
    \/ type_name = "ID" /\ value.t = "Number" /\ is_integer(value)

expected_type(path_node, type_name) ==
    Some(valid_error(path_node, "expected type \"" \o type_name \o "\""))

\* (Keys that the type does not declare are let through.)
unknown_field_accepted(input_names, path_node, ty) == {None}

\* After the loop over the declared fields: input_names.iter().next() is any
\* of the names left, since a HashSet iterates in no specified order.
unknown_field(input_names, path_node, ty) ==
    IF input_names = {} THEN {None}
    ELSE {Some(valid_error(path_node,
               "unknown field \"" \o name \o "\" of type \"" \o ty.name \o "\""))
             : name \in input_names}

(***************************************************************************)
(* is_valid_input_value(schema, ty, value, path_node): the set of results  *)
(* the call may return, None or Some(reason).  It is one result except     *)
(* where the reason names an unknown field, which is any of them.          *)
(***************************************************************************)
RECURSIVE is_valid_input_value(_, _, _, _)
RECURSIVE is_valid_input_base_value(_, _, _, _)
RECURSIVE find_map_elements(_, _, _, _, _)
RECURSIVE input_fields_from(_, _, _, _, _, _)

\* (A find_map that goes on to the last element that fails.)
RECURSIVE find_map_last(_, _, _, _, _)
find_map_last(schema, element_ty, elements, path_node, i) ==
    IF i > Len(elements) THEN {None}
    ELSE LET later == find_map_last(schema, element_ty, elements, path_node, i + 1)
         IN  IF later # {None} THEN later
             ELSE is_valid_input_value(schema, element_ty, elements[i],
                                       PathNode_index(path_node, i - 1))

\* elements.iter().enumerate().find_map(..), from the i-th element on; the
\* element at position i of the sequence has the index i - 1.
find_map_elements(schema, element_ty, elements, path_node, i) ==
    IF i > Len(elements) THEN {None}
    ELSE UNION {IF reason.some THEN {reason}
                ELSE find_map_elements(schema, element_ty, elements, path_node, i + 1)
                   : reason \in is_valid_input_value(schema, element_ty, elements[i],
                                                     PathNode_index(path_node, i - 1))}

\* for field in ty.input_fields.values() { .. }, from the i-th field on, and
\* the check of the names that are left.
input_fields_from(schema, ty, values, path_node, input_names, i) ==
    IF i > Len(ty.input_fields) THEN unknown_field(input_names, path_node, ty)
    ELSE LET field == ty.input_fields[i]
             names == input_names \ {field.name}
             rest == input_fields_from(schema, ty, values, path_node, names, i + 1)
         IN  IF field.name \in DOMAIN values
             THEN UNION {IF reason.some THEN {reason} ELSE rest
                            : reason \in is_valid_input_value(
                                             schema, field.ty, values[field.name],
                                             PathNode_name(path_node, field.name))}
             ELSE IF ~field.ty.nullable /\ ~field.default_value.some
             THEN {Some(valid_error(path_node,
                       "field \"" \o field.name \o "\" of type \"" \o ty.name
                           \o "\" is required but not provided"))}
             ELSE rest

is_valid_input_base_value(schema, base_ty, value, path_node) ==
    IF base_ty.b = "List"
    THEN IF IsList(value)
         THEN find_map_elements(schema, base_ty.ty, value.l, path_node, 1)
         ELSE IF IsNull(value) THEN {None}
         ELSE is_valid_input_value(schema, base_ty.ty, value, path_node)
    ELSE LET type_name == base_ty.name
         IN  IF IsNull(value) THEN {None}
             ELSE IF type_name \notin DOMAIN schema.types THEN {None}
             ELSE LET ty == schema.types[type_name]
                  IN  CASE ty.kind = "Scalar" ->
                             IF is_valid_scalar_value(ty.name, value) THEN {None}
                             ELSE {expected_type(path_node, type_name)}
                        [] ty.kind = "Enum" ->
                             IF value.t = "Enum"
                             THEN IF value.e \notin ty.enum_values
                                  THEN {Some(valid_error(path_node,
                                            "enumeration type \"" \o ty.name
                                                \o "\" does not contain the value \""
                                                \o value.e \o "\""))}
                                  ELSE {None}
                             ELSE {expected_type(path_node, type_name)}
                        [] ty.kind = "InputObject" ->
                             IF IsObject(value)
                             THEN input_fields_from(schema, ty, value.o, path_node,
                                                    DOMAIN value.o, 1)
                             ELSE {expected_type(path_node, type_name)}
                        [] OTHER -> {None}

is_valid_input_value(schema, ty, value, path_node) ==
    IF ~ty.nullable
    THEN IF IsNull(value) THEN {expected_type(path_node, Type_fmt(ty))}
         ELSE is_valid_input_base_value(schema, ty.base, value, path_node)
    ELSE is_valid_input_base_value(schema, ty.base, value, path_node)

(***************************************************************************)
(* A composed schema, and the types and values the validator is called     *)
(* with.                                                                   *)
(***************************************************************************)
MetaType(name, kind, enum_values, input_fields) ==
    [name |-> name, kind |-> kind, enum_values |-> enum_values,
     input_fields |-> input_fields]

MetaInputValue(name, ty, default_value) ==
    [name |-> name, ty |-> ty, default_value |-> default_value]

Nullable(type_name) == Type(BaseType_Named(type_name), TRUE)
NonNull(type_name) == Type(BaseType_Named(type_name), FALSE)

Schema ==
    [types |->
        ("Int" :> MetaType("Int", "Scalar", {}, <<>>))
     @@ ("String" :> MetaType("String", "Scalar", {}, <<>>))
     @@ ("Color" :> MetaType("Color", "Enum", {"RED", "GREEN"}, <<>>))
     @@ ("User" :> MetaType("User", "Object", {}, <<>>))
     @@ ("Point" :> MetaType("Point", "InputObject", {},
            <<MetaInputValue("x", NonNull("Int"), None),
              MetaInputValue("y", Nullable("Int"), None),
              MetaInputValue("z", NonNull("Int"), Some(Number(0)))>>))
     @@ ("Segment" :> MetaType("Segment", "InputObject", {},
            <<MetaInputValue("from", NonNull("Point"), None),
              MetaInputValue("tags", Type(BaseType_List(NonNull("String")), TRUE),
                             None)>>))]

InputTypes ==
    {Nullable("Int"), NonNull("Int"), Nullable("String"), Nullable("Color"),
     Nullable("User"), Nullable("Missing"),
     Nullable("Point"), NonNull("Point"), Nullable("Segment"),
     Type(BaseType_List(Nullable("Int")), TRUE),
     Type(BaseType_List(NonNull("Int")), FALSE),
     Type(BaseType_List(Nullable("Point")), TRUE),
     Type(BaseType_List(Type(BaseType_List(NonNull("Int")), TRUE)), TRUE)}

InputElements ==
    {Null, Number(1), String("s"), Obj1("x", Number(1)), Object(EmptyMap),
     List(<<Number(1), String("s")>>)}

InputValues ==
    {Null, Number(1), Float(1, 5), String("s"), Boolean(TRUE), Enum("RED"), Enum("BLUE"),
     Object(EmptyMap), Obj1("x", Number(1)), Obj1("x", String("s")), Obj1("x", Null),
     Obj1("y", Number(2)), Obj2("x", Number(1), "y", Number(2)),
     Obj2("x", Number(1), "w", Number(1)),
     Obj3("x", Number(1), "w", Number(1), "v", Number(2)),
     Obj2("x", String("s"), "w", Number(1)),
     Obj1("from", Obj1("x", Number(1))),
     Obj1("from", Object(EmptyMap)),
     Obj1("tags", List(<<String("a")>>)),
     Obj2("from", Obj1("x", Number(1)), "tags", List(<<String("a"), Number(1)>>)),
     Obj2("from", Obj1("x", Number(1)), "tags", String("a")),
     Obj2("from", Obj2("x", Number(1), "w", Number(1)), "tags", List(<<Null>>))}
    \cup {List(l) : l \in SeqUpTo(InputElements, MaxListLen)}

\* The caller has a value to validate against a type, at the path of one name.
InitValid ==
    /\ plan = <<ParallelNode(<<>>)>>
    /\ pc = <<"pending">>
    /\ iter = <<0>>
    /\ resp = Response(Null, <<>>)
    /\ resp_lock = 0
    /\ call = <<NoCall>>
    /\ issued = <<0>>
    /\ returned = FALSE
    /\ \E ty \in InputTypes, value \in InputValues :
          validation = [st |-> "called", ty |-> ty, value |-> value,
                        path_node |-> PathNode_new("input")]

\* The call returns one of its results.
Validate ==
    /\ validation.st = "called"
    /\ \E reason \in is_valid_input_value(Schema, validation.ty, validation.value,
                                          validation.path_node) :
          validation' = [st |-> "returned", ty |-> validation.ty,
                         value |-> validation.value,
                         path_node |-> validation.path_node, reason |-> reason]
    /\ UNCHANGED <<plan, pc, iter, resp, resp_lock, call, issued, returned>>

NextValid == Validate

ValidSpec == InitValid /\ [][NextValid]_vars

(***************************************************************************)
(* What the properties of the validator speak of.                          *)
(***************************************************************************)
Validated == validation.st = "returned"

\* Validating the value against the type at the path gives an error.
Fails(ty, value, path_node) ==
    \E reason \in is_valid_input_value(Schema, ty, value, path_node) : reason.some

IsInputObjectType(ty) ==
    /\ ty.base.b = "Named"
    /\ ty.base.name \in DOMAIN Schema.types
    /\ Schema.types[ty.base.name].kind = "InputObject"

DeclaredFields(ty) ==
    LET input_fields == Schema.types[ty.base.name].input_fields
    IN  {input_fields[i] : i \in 1..Len(input_fields)}

(***************************************************************************)
(* C14.  For a named input-object type and a value that is not null, the   *)
(* validator returns an error exactly when the value is not an object, or  *)
(* a declared field with an entry fails against the field's type, or a     *)
(* declared field without an entry is non-nullable and has no default, or  *)
(* the value has a key that the type does not declare; otherwise None.     *)
(***************************************************************************)
C14_InputObjectErrorIff ==
    (Validated /\ IsInputObjectType(validation.ty) /\ ~IsNull(validation.value)) =>
        LET value == validation.value
            fields == DeclaredFields(validation.ty)
            invalid ==
                \/ ~IsObject(value)
                \/ /\ IsObject(value)
                   /\ \/ \E field \in fields :
                            /\ field.name \in DOMAIN value.o
                            /\ Fails(field.ty, value.o[field.name],
                                     Append(validation.path_node, Name(field.name)))
                      \/ \E field \in fields :
                            /\ field.name \notin DOMAIN value.o
                            /\ ~field.ty.nullable
                            /\ ~field.default_value.some
                      \/ \E key \in DOMAIN value.o :
                            \A field \in fields : field.name # key
        IN  /\ validation.reason.some <=> invalid
            /\ ~invalid => validation.reason = None

\* A Segment whose `from` has the required field and a key that Point does
\* not declare: the error is the one of the field `from`.
C14_Witness ==
    /\ Validated
    /\ validation.ty = Nullable("Segment")
    /\ validation.value = Obj2("from", Obj2("x", Number(1), "w", Number(1)),
                               "tags", List(<<Null>>))
    /\ validation.reason = Some("\"input.from\", unknown field \"w\" of type \"Point\"")

(***************************************************************************)
(* C15.  For a list type [E]: a value that is neither a list nor null gets *)
(* what validating it against E at the same path gives; a list value gets  *)
(* the error of the first element, by index, that fails against E at the   *)
(* path extended by the index, and None when no element fails.             *)
(***************************************************************************)
C15_ListCoercionAndFirstError ==
    (Validated /\ validation.ty.base.b = "List") =>
        LET element_ty == validation.ty.base.ty
            value == validation.value
            at(i) == Append(validation.path_node, Index(i - 1))
        IN  /\ (~IsList(value) /\ ~IsNull(value)) =>
                  /\ validation.reason
                        \in is_valid_input_value(Schema, element_ty, value,
                                                 validation.path_node)
                  /\ is_valid_input_value(Schema, validation.ty, value,
                                          validation.path_node)
                        = is_valid_input_value(Schema, element_ty, value,
                                               validation.path_node)
            /\ IsList(value) =>
                  LET failing == {i \in 1..Len(value.l) :
                                     Fails(element_ty, value.l[i], at(i))}
                  IN  IF failing = {} THEN validation.reason = None
                      ELSE LET first == CHOOSE i \in failing :
                                            \A j \in failing : i <= j
                           IN  /\ validation.reason.some
                               /\ validation.reason
                                     \in is_valid_input_value(Schema, element_ty,
                                                              value.l[first], at(first))

\* A list of two elements that both fail against Point: the error is the
\* one of the element with index 0.
C15_Witness ==
    /\ Validated
    /\ validation.ty = Type(BaseType_List(Nullable("Point")), TRUE)
    /\ validation.value = List(<<Object(EmptyMap), String("s")>>)
    /\ validation.reason
          = Some("\"input.0\", field \"x\" of type \"Point\" is required but not provided")

\* A single object took the place of a list of one.
C15_WitnessCoercion ==
    /\ Validated
    /\ validation.ty = Type(BaseType_List(Nullable("Point")), TRUE)
    /\ validation.value = Obj2("x", Number(1), "w", Number(1))
    /\ validation.reason = Some("\"input\", unknown field \"w\" of type \"Point\"")

(***************************************************************************)
(* The sites of the integrate phase: the places of the values at which the *)
(* walk of flatten_values takes an entity, in the order of the walk; the   *)
(* field of the last segment whatever it holds, or every element of the    *)
(* list there.                                                             *)
(***************************************************************************)
RECURSIVE IntegrateSites(_, _, _)
RECURSIVE IntegrateSitesOfElements(_, _, _, _)
IntegrateSitesOfElements(array, idx, rest, at) ==
    IF idx > Len(array) THEN <<>>
    ELSE (IF Len(rest) = 0 THEN <<Append(at, idx)>>
          ELSE IntegrateSites(array[idx], rest, Append(at, idx)))
         \o IntegrateSitesOfElements(array, idx + 1, rest, at)

IntegrateSites(v, path, at) ==
    IF Len(path) = 0 \/ ~IsObject(v) THEN <<>>
    ELSE IF path[1].name \notin DOMAIN v.o THEN <<>>
    ELSE LET field == v.o[path[1].name]
             rest == Tail(path)
             here == Append(at, path[1].name)
         IN  IF path[1].is_list
             THEN IF IsList(field) THEN IntegrateSitesOfElements(field.l, 1, rest, here)
                  ELSE <<>>
             ELSE IF Len(path) = 1 THEN <<here>>
                  ELSE IntegrateSites(field, rest, here)

\* The value of v at the place `at`.
RECURSIVE ValueAt(_, _)
ValueAt(v, at) ==
    IF Len(at) = 0 THEN v
    ELSE IF IsObject(v) THEN ValueAt(v.o[at[1]], Tail(at))
    ELSE ValueAt(v.l[at[1]], Tail(at))

\* The step in which Flatten n integrates the reply to its query.
FlattenIntegrates(n) == plan[n].kind = "Flatten" /\ pc[n] = "locked" /\ pc'[n] = "done"

(***************************************************************************)
(* C16.  The integrate step of a Flatten gives the entities to the sites   *)
(* in order, one each: site i gets entity i merged for every i up to the   *)
(* smaller of the two counts; with fewer entities than sites the sites     *)
(* after them are as they were, with more entities than sites the surplus  *)
(* changes nothing; nothing else of the response changes.                  *)
(***************************************************************************)
C16_EntitiesInOrderOnePerSite ==
    [][\A n \in Nodes :
          (FlattenIntegrates(n) /\ ReturnedEntities(n)) =>
              LET sites == IntegrateSites(resp.data, plan[n].path, <<>>)
                  entities == EntitiesOf(n)
              IN  /\ resp'.data = MergedAtSites(resp.data, sites, entities, 1)
                  /\ \A i \in 1..Len(sites) :
                        ValueAt(resp'.data, sites[i])
                            = IF i <= Len(entities)
                              THEN merge_data(ValueAt(resp.data, sites[i]), entities[i])
                              ELSE ValueAt(resp.data, sites[i])
                  /\ resp'.errors = resp.errors]_vars

\* Two sites and one entity: the first element has the entity's field and
\* the second has not.
C16_Witness ==
    \E n \in Nodes :
        /\ plan[n].kind = "Flatten"
        /\ pc[n] = "done"
        /\ ReturnedEntities(n)
        /\ EntitiesOf(n) = <<Obj1("age", Number(42))>>
        /\ resp.data = Obj1("items", List(<<Obj1("age", Number(42)),
                                            Obj1("name", String("n"))>>))

\* One site and two entities: the site has the first entity's field only.
C16_WitnessSurplus ==
    \E n \in Nodes :
        /\ plan[n].kind = "Flatten"
        /\ pc[n] = "done"
        /\ ReturnedEntities(n)
        /\ EntitiesOf(n) = <<Obj1("__key0_id", String("z")), Obj1("age", Number(42))>>
        /\ resp.data = Obj1("u", Obj1("__key0_id", String("z")))

(***************************************************************************)
(* C17.  When the sub-query of a Flatten succeeds without errors and its   *)
(* data is not an object, or has no `_entities`, or `_entities` is not a   *)
(* list, the integrate step changes neither the data nor the errors of the *)
(* response.                                                               *)
(***************************************************************************)
C17_NoEntitiesNoChange ==
    [][\A n \in Nodes :
          (FlattenIntegrates(n) /\ Succeeded(n) /\ ~ReturnedEntities(n)) =>
              resp' = resp]_vars

\* A Flatten is done whose reply had `_entities` that is not a list: the
\* site lost its key in the collect phase and got nothing.
C17_Witness ==
    \E n \in Nodes :
        /\ plan[n].kind = "Flatten"
        /\ pc[n] = "done"
        /\ Succeeded(n)
        /\ IsObject(DataOf(n))
        /\ "_entities" \in DOMAIN DataOf(n).o
        /\ ~IsList(DataOf(n).o["_entities"])
        /\ Len(RepresentationsSent(n)) = 1
        /\ resp = Response(Obj1("u", Obj1("name", String("n"))), <<>>)

(***************************************************************************)
(* The synthetic-key entries a Flatten delivered to the coordinator: for   *)
(* representation i, each of its names with the value; the entry           *)
(* `__key<prefix>_<name>` of the i-th object site.                         *)
(***************************************************************************)
HasCollected(n) == plan[n].kind = "Flatten" /\ call[n].st # "none"

DeliveredKeys(n) ==
    LET representations == RepresentationsSent(n)
    IN  UNION {{<<i, name, representations[i].o[name]>>
                   : name \in DOMAIN representations[i].o}
                  : i \in 1..Len(representations)}

\* n and m are two Flatten children of a Parallel with one path and prefix.
ParallelTwins(n, m) ==
    /\ n # m
    /\ \E p \in Nodes :
          plan[p].kind = "Parallel" /\ n \in Children(p) /\ m \in Children(p)
    /\ plan[n].kind = "Flatten" /\ plan[m].kind = "Flatten"
    /\ plan[n].path = plan[m].path
    /\ plan[n].prefix = plan[m].prefix

(***************************************************************************)
(* C18.  Of two Flatten nodes that run in Parallel with the same path and  *)
(* prefix, at most one delivers a given synthetic-key entry of the         *)
(* response in its representations, under every interleaving.              *)
(***************************************************************************)
C18_KeyDeliveredOnce ==
    \A n \in Nodes, m \in Nodes :
        (ParallelTwins(n, m) /\ HasCollected(n) /\ HasCollected(m)) =>
            DeliveredKeys(n) \cap DeliveredKeys(m) = {}

\* Both queries are outstanding at once; one carries the keys of both
\* elements, the other two representations without a key.
C18_Witness ==
    \E n \in Nodes, m \in Nodes :
        /\ ParallelTwins(n, m)
        /\ call[n].st = "outstanding"
        /\ call[m].st = "outstanding"
        /\ DeliveredKeys(n) = {<<1, "id", String("1")>>, <<2, "id", String("2")>>}
        /\ RepresentationsSent(m) = <<Object(EmptyMap), Object(EmptyMap)>>

(***************************************************************************)
(* C19, as claimed.  The data of the response is null before anything is   *)
(* merged and, once a Fetch or an Introspection has merged its result, an  *)
(* object, whatever data was returned.                                     *)
(***************************************************************************)
\* Node n is done and what it got was merged into the data.
HasMerged(n) ==
    /\ pc[n] = "done"
    /\ \/ plan[n].kind = "Introspection"
       \/ plan[n].kind = "Fetch" /\ Succeeded(n)

C19_ObjectAfterFirstMerge ==
    IF \E n \in Nodes : HasMerged(n) THEN IsObject(resp.data) ELSE IsNull(resp.data)

(***************************************************************************)
(* C19, amended.  The data is null before anything is merged; a merge into *)
(* null data makes the data the returned value as it is, an object only if *)
(* that value is one; and data that is an object stays an object.          *)
(***************************************************************************)
C19_ObjectOnceObjectMerged ==
    /\ []((\A n \in Nodes : ~HasMerged(n)) => IsNull(resp.data))
    /\ [][/\ \A n \in Nodes :
                (Merges(n) /\ IsNull(resp.data)) => resp'.data = DataOf(n)
          /\ IsObject(resp.data) => IsObject(resp'.data)]_vars

\* An object was merged first, then a number and a list: the data is the
\* object.
C19_Witness ==
    /\ returned
    /\ plan = MergePlan
    /\ DataOf(2) = Obj1("a", Number(1))
    /\ DataOf(3) = Number(2)
    /\ DataOf(4) = List(<<Number(1)>>)
    /\ resp.data = Obj1("a", Number(1))

(***************************************************************************)
(* What the collect phase may touch: in the objects at the terminal sites  *)
(* of the path, the entries whose key is `__key<k>_` followed by a name.   *)
(***************************************************************************)
\* The key is "__key", the decimal number k, "_", and a name.
IsSyntheticKey(key, k) ==
    LET p == "__key" \o Decimal(k) \o "_"
    IN  Len(key) >= Len(p) /\ SubSeq(key, 1, Len(p)) = p

NameOfKey(key, k) ==
    LET p == "__key" \o Decimal(k) \o "_"
    IN  SubSeq(key, Len(p) + 1, Len(key))

\* The object without its synthetic keys of prefix k, and these entries
\* under their names.
WithoutSyntheticKeys(object, k) ==
    Object([key \in {key \in DOMAIN object.o : ~IsSyntheticKey(key, k)} |-> object.o[key]])

SyntheticEntries(object, k) ==
    LET keys == {key \in DOMAIN object.o : IsSyntheticKey(key, k)}
    IN  Object([name \in {NameOfKey(key, k) : key \in keys} |->
                   object.o[CHOOSE key \in keys : NameOfKey(key, k) = name]])

\* v with the value at the place `at` replaced.
RECURSIVE ReplacedAt(_, _, _)
ReplacedAt(v, at, new) ==
    IF Len(at) = 0 THEN new
    ELSE IF IsObject(v)
         THEN Object([v.o EXCEPT ![at[1]] = ReplacedAt(@, Tail(at), new)])
         ELSE List([v.l EXCEPT ![at[1]] = ReplacedAt(@, Tail(at), new)])

\* v with the synthetic keys of prefix k removed at sites[i], for i, i+1, ...
RECURSIVE StrippedAtSites(_, _, _, _)
StrippedAtSites(v, sites, k, i) ==
    IF i > Len(sites) THEN v
    ELSE StrippedAtSites(
             ReplacedAt(v, sites[i], WithoutSyntheticKeys(ValueAt(v, sites[i]), k)),
             sites, k, i + 1)

\* The step in which Flatten n collects its representations.
FlattenCollects(n) == plan[n].kind = "Flatten" /\ pc[n] = "collect" /\ pc'[n] = "collected"

(***************************************************************************)
(* C20.  The collect step of a Flatten with prefix k removes, in the       *)
(* objects at the terminal sites of its path, the entries whose key starts *)
(* with exactly `__key<k>_`, and nothing else: keys of another prefix,     *)
(* entries off the path and the errors are as before.  Representation i is *)
(* exactly the entries removed at the i-th site, under their keys without  *)
(* the prefix.                                                             *)
(***************************************************************************)
C20_CollectRemovesOnlyItsKeys ==
    [][\A n \in Nodes :
          FlattenCollects(n) =>
              LET sites == ObjectSites(resp.data, plan[n].path, <<>>)
                  k == plan[n].prefix
              IN  /\ resp'.data = StrippedAtSites(resp.data, sites, k, 1)
                  /\ resp'.errors = resp.errors
                  /\ call'[n].variables["representations"]
                        = List([i \in 1..Len(sites) |->
                                   SyntheticEntries(ValueAt(resp.data, sites[i]), k)])]_vars

\* A Flatten with prefix 1 has collected at a site that had `__key1_id`,
\* `__key10_id` and a nested `__key0_x`: it sent {id} and the other two
\* are still there.
C20_Witness ==
    \E n \in Nodes :
        /\ plan[n].kind = "Flatten"
        /\ plan[n].prefix = 1
        /\ pc[n] = "collected"
        /\ RepresentationsSent(n) = <<Obj1("id", String("7"))>>
        /\ resp.data = Obj1("u", Obj2("__key10_id", String("9"),
                                      "inner", Obj1("__key0_x", String("1"))))

(***************************************************************************)
(* C21.  When the sub-query of a Flatten fails in transport or returns     *)
(* errors, the integrate step leaves the data as the collect phase left it *)
(* and only appends to the errors; so once the Flatten is done, the data   *)
(* is the data the Fetch before it had merged, less the synthetic keys of  *)
(* the Flatten's prefix at the object sites of its path, and the errors    *)
(* are those of the failure.                                               *)
(***************************************************************************)
FlattenFailed(n) == plan[n].kind = "Flatten" /\ (TransportFailed(n) \/ SubgraphFailed(n))

\* How many errors the failure of node n adds.
ErrorsOfFailure(n) ==
    IF TransportFailed(n) THEN 1 ELSE Len(call[n].res.resp.errors)

C21_FailedFlattenKeepsKeysRemoved ==
    /\ [](\A n \in Nodes, m \in Nodes :
            ( /\ FlattenFailed(n)
              /\ pc[n] = "done"
              /\ Precedes(m, n)
              /\ plan[m].kind = "Fetch"
              /\ Succeeded(m) ) =>
                LET before == DataOf(m)
                    sites == ObjectSites(before, plan[n].path, <<>>)
                IN  /\ resp.data = StrippedAtSites(before, sites, plan[n].prefix, 1)
                    /\ Len(resp.errors) = ErrorsOfFailure(n))
    /\ [][\A n \in Nodes :
            (FlattenIntegrates(n) /\ FlattenFailed(n)) =>
                /\ resp'.data = resp.data
                /\ Appended(resp.errors, resp'.errors, ErrorsOfFailure(n))
                /\ ErrorsOfFailure(n) > 0]_vars

\* The sub-query got the keys of two elements and replied with an entity
\* and two errors: the keys are gone, the entity is nowhere, and the two
\* errors are recorded.
C21_Witness ==
    \E n \in Nodes :
        /\ plan[n].kind = "Flatten"
        /\ pc[n] = "done"
        /\ SubgraphFailed(n)
        /\ RepresentationsSent(n) = <<Obj1("id", String("1")), Obj1("id", String("2"))>>
        /\ DataOf(n) = Obj1("_entities", List(<<Obj1("age", Number(42))>>))
        /\ resp = Response(Obj1("items", List(<<Object(EmptyMap),
                                                Obj1("name", String("n"))>>)),
                           <<ServerError("bad", <<>>), ServerError("worse", <<>>)>>)

\* The sub-query failed in transport after a key was extracted.
C21_WitnessTransport ==
    \E n \in Nodes :
        /\ plan[n].kind = "Flatten"
        /\ pc[n] = "done"
        /\ TransportFailed(n)
        /\ RepresentationsSent(n) = <<Obj1("id", String("1"))>>
        /\ resp = Response(Obj1("u", Object(EmptyMap)),
                           <<ServerError("request timed out", <<>>)>>)

=============================================================================
